---------------------------- MODULE Spec2Model ----------------------------
(***************************************************************************)
(* The three book crawlers of the repository (BtcBookCrawler,              *)
(* EthBookCrawler, ZKBookCrawler) as one state machine.  The variable      *)
(* crawler says which script runs; every operator that differs between    *)
(* the scripts takes it as its first parameter.                            *)
(*                                                                         *)
(* Python strings are sequences of one-character strings, so that          *)
(* startswith, urljoin, urlparse, basename and re.sub are computed and     *)
(* not assumed.  Long literals of the source are abbreviated, keeping      *)
(* their shape: "https://masteringethereum.xyz/" is "http://e/".           *)
(***************************************************************************)
EXTENDS Naturals, Sequences, FiniteSets

(***************************************************************************)
(* Bounds of the model.                                                    *)
(***************************************************************************)
MaxLinks == 2
MaxRerunLinks == 1
MaxRuns == 2
MaxClock == 2

(***************************************************************************)
(* Strings.                                                                *)
(***************************************************************************)
LowerSeq == <<"a","b","c","d","e","f","g","h","i","j","k","l","m",
              "n","o","p","q","r","s","t","u","v","w","x","y","z">>
UpperSeq == <<"A","B","C","D","E","F","G","H","I","J","K","L","M",
              "N","O","P","Q","R","S","T","U","V","W","X","Y","Z">>
DigitSeq == <<"0","1","2","3","4","5","6","7","8","9">>

Range(s) == {s[j] : j \in DOMAIN s}
Lower == Range(LowerSeq)
Upper == Range(UpperSeq)
Digit == Range(DigitSeq)
AlNum == Lower \cup Upper \cup Digit

\* str.startswith
StartsWith(s, p) == Len(s) >= Len(p) /\ SubSeq(s, 1, Len(p)) = p

\* the `in` operator on strings
Contains(s, p) ==
    \E j \in 1..(Len(s) + 1) : j + Len(p) - 1 <= Len(s) /\ SubSeq(s, j, j + Len(p) - 1) = p

\* str.find + 1: the first position of a character of cs, 0 when there is none
FirstOf(s, cs) ==
    IF \E j \in DOMAIN s : s[j] \in cs
    THEN CHOOSE j \in DOMAIN s : s[j] \in cs /\ \A m \in 1..(j - 1) : s[m] \notin cs
    ELSE 0

\* str.rfind + 1
LastOf(s, cs) ==
    IF \E j \in DOMAIN s : s[j] \in cs
    THEN CHOOSE j \in DOMAIN s : s[j] \in cs /\ \A m \in (j + 1)..Len(s) : s[m] \notin cs
    ELSE 0

\* s[n:]
From(s, n) == SubSeq(s, n, Len(s))

\* str.lower
LowerChar(c) ==
    IF c \in Upper THEN LowerSeq[CHOOSE j \in DOMAIN UpperSeq : UpperSeq[j] = c] ELSE c

ToLower(s) == [j \in DOMAIN s |-> LowerChar(s[j])]

\* str.lstrip(c)
RECURSIVE LStrip(_, _)
LStrip(s, c) == IF s # <<>> /\ s[1] = c THEN LStrip(Tail(s), c) ELSE s

\* str.rstrip(c)
RECURSIVE RStrip(_, _)
RStrip(s, c) ==
    IF s # <<>> /\ s[Len(s)] = c THEN RStrip(SubSeq(s, 1, Len(s) - 1), c) ELSE s

\* str.strip(c)
Strip(s, c) == RStrip(LStrip(s, c), c)

\* re.sub(r'[^...]', '_', s): every character outside keep becomes "_"
SubOutside(s, keep) == [j \in DOMAIN s |-> IF s[j] \in keep THEN s[j] ELSE "_"]

\* re.sub(r'_+', '_', s)
RECURSIVE Collapse(_)
Collapse(s) ==
    IF Len(s) < 2 THEN s
    ELSE IF s[1] = "_" /\ s[2] = "_" THEN Collapse(Tail(s))
    ELSE <<s[1]>> \o Collapse(Tail(s))

\* str(n) for a natural number
RECURSIVE Dec(_)
Dec(n) == IF n < 10 THEN <<DigitSeq[n + 1]>> ELSE Dec(n \div 10) \o <<DigitSeq[(n % 10) + 1]>>

\* f"{n:02d}"
Dec02(n) == IF n < 10 THEN <<"0">> \o Dec(n) ELSE Dec(n)

(***************************************************************************)
(* urllib.parse, on the URL shapes the crawlers meet: an optional scheme,  *)
(* an optional //netloc, a path, an optional ?query or #fragment.  Paths   *)
(* hold no "." or ".." segments.                                           *)
(***************************************************************************)
SchemeChar == Lower \cup Upper \cup Digit \cup {"+", "-", "."}

\* the position of the ":" ending the scheme, 0 when the URL has no scheme
SchemeEnd(u) ==
    LET c == FirstOf(u, {":"})
    IN  IF c > 1 /\ u[1] \in (Lower \cup Upper) /\ \A j \in 1..(c - 1) : u[j] \in SchemeChar
        THEN c ELSE 0

\* what follows the scheme's ":"
AfterScheme(u) == From(u, SchemeEnd(u) + 1)

\* scheme://netloc of an absolute URL, "" of a reference without netloc
Origin(u) ==
    LET r == AfterScheme(u)
    IN  IF StartsWith(r, <<"/", "/">>)
        THEN LET rest == From(r, 3)
                 e == FirstOf(rest, {"/", "?", "#"})
             IN  SubSeq(u, 1, SchemeEnd(u)) \o <<"/", "/">>
                   \o (IF e = 0 THEN rest ELSE SubSeq(rest, 1, e - 1))
        ELSE SubSeq(u, 1, SchemeEnd(u))

\* urlparse(u).path
UrlPath(u) ==
    LET o == Origin(u)
        r == From(u, Len(o) + 1)
        e == FirstOf(r, {"?", "#"})
    IN  IF e = 0 THEN r ELSE SubSeq(r, 1, e - 1)

\* urljoin(base, ref)
urljoin(base, ref) ==
    IF ref = <<>> THEN base
    ELSE IF SchemeEnd(ref) # 0 THEN ref
    ELSE IF StartsWith(ref, <<"/", "/">>) THEN SubSeq(base, 1, SchemeEnd(base)) \o ref
    ELSE IF ref[1] = "/" THEN Origin(base) \o ref
    ELSE LET p == UrlPath(base)
             d == LastOf(p, {"/"})
         IN  Origin(base) \o (IF d = 0 THEN <<"/">> ELSE SubSeq(p, 1, d)) \o ref

\* os.path.basename
basename(p) == From(p, LastOf(p, {"/"}) + 1)

\* urllib.parse.unquote, for the one escape the fixtures hold: %20
RECURSIVE unquote(_)
unquote(s) ==
    IF s = <<>> THEN <<>>
    ELSE IF StartsWith(s, <<"%", "2", "0">>) THEN <<" ">> \o unquote(From(s, 4))
    ELSE <<s[1]>> \o unquote(Tail(s))


(***************************************************************************)
(* Configuration of the three scripts.                                     *)
(***************************************************************************)
Crawlers == {"btc", "eth", "zk"}

Http == <<"h", "t", "t", "p">>
HttpSS == Http \o <<":", "/", "/">>
DotMd == <<".", "m", "d">>
README == <<"R", "E", "A", "D", "M", "E">> \o DotMd
ASSETS_DIR == <<"a", "s", "s", "e", "t", "s">>

\* REPO_BASE_URL / BASE_URL
base_url(c) ==
    CASE c = "btc" -> HttpSS \o <<"g", "/", "m", "/">>
      [] c = "eth" -> HttpSS \o <<"e", "/">>
      [] c = "zk"  -> HttpSS \o <<"z">>

\* README_URL / TOC_URL
toc_url(c) ==
    CASE c = "btc" -> urljoin(base_url(c), README)
      [] c = "eth" -> HttpSS \o <<"e", "/">>
      [] c = "zk"  -> HttpSS \o <<"z", "/", "k">>

(***************************************************************************)
(* download_asset.  A file of the assets directory is [src, complete,      *)
(* run]: the URL whose response body it holds, whether the whole body was  *)
(* written, and the run that created it.                                   *)
(***************************************************************************)
NoFile == [src |-> <<>>, complete |-> FALSE, run |-> 0]

\* the outcomes of session.get(img_url, stream=True) and of the write loop:
\* 200 and every chunk written; a status other than 200; an exception raised
\* by the request; an exception raised after open(local_path, 'wb')
NetOutcomes == {"ok", "status", "error", "partial"}

\* img_url.startswith('http')
LooksAbsolute(img_url) == StartsWith(img_url, Http)

\* the URL the asset is fetched from
ResolveAsset(c, img_url, page_url) ==
    IF LooksAbsolute(img_url) THEN img_url
    ELSE CASE c = "btc" -> IF page_url # <<>> THEN urljoin(page_url, img_url)
                           ELSE urljoin(base_url(c), img_url)
           [] c = "eth" -> urljoin(page_url, img_url)
           [] c = "zk"  -> urljoin(base_url(c), img_url)

\* os.path.basename(parsed.path), percent-decoded by the btc script only
RawName(c, full) ==
    basename(IF c = "btc" THEN unquote(UrlPath(full)) ELSE UrlPath(full))

\* the negation of: not filename or '.' not in filename
UrlNamesFile(c, full) == RawName(c, full) # <<>> /\ "." \in Range(RawName(c, full))

\* f"image_{int(time.time()*1000)}.png"
SynthName(t) == <<"i", "m", "a", "g", "e", "_">> \o Dec(t) \o <<".", "p", "n", "g">>

\* re.sub(r'[^a-zA-Z0-9._-]', '_', filename)
Sanitize(name) == SubOutside(name, AlNum \cup {".", "_", "-"})

AssetFilenameClockMutant(c, full, t) == Sanitize(SynthName(t))

\* the local filename of the asset at URL full, derived at time t
AssetFilename(c, full, t) ==
    Sanitize(IF UrlNamesFile(c, full) THEN RawName(c, full) ELSE SynthName(t))

\* os.path.join(ASSETS_DIR, filename)
RelativePath(fn) == ASSETS_DIR \o <<"/">> \o fn

CacheHitNeverMutant(dir, fn) == FALSE

\* os.path.exists(local_path)
CacheHit(dir, fn) == fn \in DOMAIN dir

\* what the failure branches return: the btc script keeps img_url apart from
\* full_img_url, the eth and zk scripts have overwritten img_url by then
FallbackRef(c, img_url, full) == IF c = "btc" THEN img_url ELSE full

\* dir with file fn created or truncated and written
WriteAsset(dir, fn, file) ==
    [f \in DOMAIN dir \cup {fn} |-> IF f = fn THEN file ELSE dir[f]]

\* download_asset from "Don't re-download if exists" on: the cache check, the
\* request, the write.  What the call returns (ret), the assets directory it
\* leaves (dir), and what it did: the resolved URL, the filename, whether the
\* file was there, whether a request was issued and a file opened for writing.
StoreAsset(c, img_url, full, fn, dir, net, r) ==
    IF CacheHit(dir, fn)
    THEN [ret |-> RelativePath(fn), dir |-> dir, url |-> full, fn |-> fn,
          existed |-> fn \in DOMAIN dir, requested |-> FALSE, opened |-> FALSE]
    ELSE CASE net = "ok" ->
                [ret |-> RelativePath(fn),
                 dir |-> WriteAsset(dir, fn, [src |-> full, complete |-> TRUE, run |-> r]),
                 url |-> full, fn |-> fn, existed |-> fn \in DOMAIN dir,
                 requested |-> TRUE, opened |-> TRUE]
           [] net = "partial" ->
                [ret |-> FallbackRef(c, img_url, full),
                 dir |-> WriteAsset(dir, fn, [src |-> full, complete |-> FALSE, run |-> r]),
                 url |-> full, fn |-> fn, existed |-> fn \in DOMAIN dir,
                 requested |-> TRUE, opened |-> TRUE]
           [] OTHER ->
                [ret |-> FallbackRef(c, img_url, full), dir |-> dir,
                 url |-> full, fn |-> fn, existed |-> fn \in DOMAIN dir,
                 requested |-> TRUE, opened |-> FALSE]

\* download_asset from the resolved URL on
FetchAsset(c, img_url, full, dir, t, net, r) ==
    StoreAsset(c, img_url, full, AssetFilename(c, full, t), dir, net, r)

\* download_asset(img_url, page_url) at time t, the request ending as net
download_asset(c, img_url, page_url, dir, t, net, r) ==
    IF img_url = <<>>
    THEN [ret |-> <<>>, dir |-> dir, url |-> <<>>, fn |-> <<>>, existed |-> FALSE,
          requested |-> FALSE, opened |-> FALSE]
    ELSE FetchAsset(c, img_url, ResolveAsset(c, img_url, page_url), dir, t, net, r)

(***************************************************************************)
(* The table of contents.  The remote TOC page is [nav, links]: whether    *)
(* the navigation container the script looks for is there (the eth         *)
(* script's nav#sidebar, the zk script's module cards), and the links the  *)
(* script's selector or regular expression finds, in document order, each  *)
(* [module, title, href]; an href of <<>> is an <a> without href.          *)
(***************************************************************************)
Link(m, t, h) == [module |-> m, title |-> t, href |-> h]

TitleA == <<"1", ".", " ", "A">>
TitleB == <<"B", "!">>
ModuleOne == <<"M", "1">>
ModuleTwo == <<"M", "2">>
General == <<"G", "e", "n", "e", "r", "a", "l">>

\* the links a TOC page of each source may hold
LinkPool(c) ==
    CASE c = "btc" ->
           { Link(<<>>, TitleA, <<"a">> \o DotMd),
             Link(<<>>, TitleB, <<"d", "/", "a">> \o DotMd),
             Link(<<>>, TitleB, README),
             Link(<<>>, TitleA, HttpSS \o <<"x", "/", "b">> \o DotMd) }
      [] c = "eth" ->
           { Link(<<>>, TitleA, <<"a">>),
             Link(<<>>, TitleA, <<"b">>),
             Link(<<>>, TitleB, <<"#", "t">>),
             Link(<<>>, TitleB, <<>>) }
      [] c = "zk" ->
           { Link(ModuleOne, TitleA, HttpSS \o <<"z", "/", "p", "/", "a">>),
             Link(ModuleOne, TitleB, <<"/", "b">>),
             Link(ModuleTwo, TitleA, <<"#", "t">>) }

RECURSIVE SeqsUpTo(_, _)
SeqsUpTo(S, n) ==
    IF n = 0 THEN {<<>>}
    ELSE LET shorter == SeqsUpTo(S, n - 1)
         IN  shorter \cup {Append(q, x) : q \in shorter, x \in S}

\* the TOC pages of source c
TocPages(c) ==
    [nav : IF c = "btc" THEN {TRUE} ELSE BOOLEAN, links : SeqsUpTo(LinkPool(c), MaxLinks)]

Chapter(m, t, u, f) == [module |-> m, title |-> t, url |-> u, filename |-> f]

\* the btc script's href, cleaned: href.lstrip('(')
CleanHref(l) == LStrip(l.href, "(")

\* the btc script's filter: no README.md link, no external link
BtcKeeps(l) == ~Contains(CleanHref(l), README) /\ ~StartsWith(CleanHref(l), Http)

\* the eth script's filter: an href, and not an anchor
EthKeeps(l) == l.href # <<>> /\ ~StartsWith(l.href, <<"#">>)

\* get_toc: fetched says whether the TOC page's fetch succeeded
get_toc(c, fetched, page) ==
    IF ~fetched THEN <<>>
    ELSE CASE c = "btc" ->
                LET kept == SelectSeq(page.links, BtcKeeps)
                IN  [j \in DOMAIN kept |->
                       Chapter(<<>>, kept[j].title, urljoin(base_url(c), CleanHref(kept[j])),
                               CleanHref(kept[j]))]
           [] c = "eth" ->
                IF ~page.nav THEN <<>>
                ELSE LET kept == SelectSeq(page.links, EthKeeps)
                     IN  [j \in DOMAIN kept |->
                            Chapter(<<>>, kept[j].title, urljoin(toc_url(c), kept[j].href), <<>>)]
           [] c = "zk" ->
                [j \in DOMAIN page.links |->
                   Chapter(IF page.nav THEN page.links[j].module ELSE General,
                           page.links[j].title, page.links[j].href, <<>>)]

(***************************************************************************)
(* scrape.  A file of the output directory is a sequence of lines, each    *)
(* [kind, text, target, refs]; the index file is README.md.                *)
(***************************************************************************)
Line(k, t, g, r) == [kind |-> k, text |-> t, target |-> g, refs |-> r]

TocEmptyNeverMutant(chs) == FALSE

\* not chapters
TocEmpty(chs) == chs = <<>>

\* the eth and zk scripts' safe_title
SafeTitle(title) == Strip(Collapse(ToLower(SubOutside(title, AlNum))), "_")

\* the name scrape gives the file of the chapter at position idx (from 1)
ChapterFilename(c, idx, ch) ==
    IF c = "btc" THEN ch.filename
    ELSE Dec02(idx) \o <<"_">> \o SafeTitle(ch.title) \o DotMd

\* chapter['filename'] = filename, for every chapter
AssignFilenames(c, chs) ==
    [j \in DOMAIN chs |-> [chs[j] EXCEPT !.filename = ChapterFilename(c, j, chs[j])]]

\* the index lines of the chapters from position j on
RECURSIVE IndexBody(_, _, _)
IndexBody(c, chs, j) ==
    IF j > Len(chs) THEN <<>>
    ELSE (IF c = "zk" /\ (j = 1 \/ chs[j].module # chs[j - 1].module)
          THEN <<Line("module", chs[j].module, <<>>, <<>>)>> ELSE <<>>)
         \o <<Line("entry", chs[j].title, ChapterFilename(c, j, chs[j]), <<>>)>>
         \o IndexBody(c, chs, j + 1)

IndexLinesSkipFirstMutant(c, chs) ==
    <<Line("heading", <<>>, <<>>, <<>>)>> \o IndexBody(c, chs, 2)

\* what scrape writes to README.md
IndexLines(c, chs) ==
    IF c = "btc"
    THEN <<Line("heading", <<>>, <<>>, <<>>), Line("scraped", <<>>, <<>>, <<>>)>>
           \o IndexBody(c, chs, 1)
    ELSE <<Line("heading", <<>>, <<>>, <<>>)>> \o IndexBody(c, chs, 1)
           \o <<Line("scraped", <<>>, toc_url(c), <<>>)>>

\* the path, in the output directory, of a chapter's file
TargetPath(c, ch) == IF c = "btc" THEN basename(ch.filename) ELSE ch.filename

\* the content of a chapter that was fetched: the placeholder when the
\* conversion gave nothing.  The btc script converts nothing, it has none.
ChapterBody(c, found, refs) ==
    IF c # "btc" /\ ~found
    THEN Line("placeholder", <<>>, <<>>, <<>>)
    ELSE Line("body", <<>>, <<>>, refs)

FullContentBodyFirstMutant(c, ch, bodyLine) ==
    IF c = "btc"
    THEN <<bodyLine, Line("source", <<>>, ch.url, <<>>)>>
    ELSE <<Line("title", ch.title, <<>>, <<>>), bodyLine, Line("source", <<>>, ch.url, <<>>)>>

\* full_content
FullContent(c, ch, bodyLine) ==
    IF c = "btc"
    THEN <<Line("source", <<>>, ch.url, <<>>), bodyLine>>
    ELSE <<Line("title", ch.title, <<>>, <<>>), Line("source", <<>>, ch.url, <<>>), bodyLine>>

\* dir with the file at path created or overwritten
WriteFile(dir, path, lines) ==
    [f \in DOMAIN dir \cup {path} |-> IF f = path THEN lines ELSE dir[f]]

\* What a page fetch can give: "fail" (fetch_text / fetch_soup returns None),
\* "empty" (200 with an empty body), "noregion" (a page without the content
\* element), "content".  A URL without a scheme makes requests raise
\* MissingSchema, a RequestException.  The btc script selects no element; a
\* BeautifulSoup object is true even when the document is empty.
PageKinds(c, url) ==
    IF SchemeEnd(url) = 0 THEN {"fail"}
    ELSE IF c = "btc" THEN {"fail", "empty", "content"}
    ELSE {"fail", "noregion", "content"}

SkipsNoContentMutant(c, kind) == kind \in {"fail", "empty", "noregion"}

\* not content / not soup: the chapter is skipped
Skips(c, kind) == kind = "fail" \/ (c = "btc" /\ kind = "empty")

\* the image references of a chapter page, in document order
RelPng == <<"a", ".", "p", "n", "g">>
AbsPng == HttpSS \o <<"c", "/", "a", ".", "p", "n", "g">>
NoExt == <<"i", "/", "p", "i", "c">>
Spaced == <<"a", "%", "2", "0", "b", ".", "p", "n", "g">>
PageImages == { <<RelPng, AbsPng>>, <<NoExt>>, <<<<>>, Spaced>> }

(***************************************************************************)
(* The state.                                                              *)
(***************************************************************************)
VARIABLES
    crawler,   \* which script runs
    toc,       \* the remote TOC page
    imgs,      \* the image references every remote chapter page holds
    files,     \* the output directory: path -> lines
    assets,    \* the assets directory: filename -> file
    now,       \* int(time.time()*1000), counted from the first run
    run,       \* the number of the current run of the script
    pc,        \* where scrape() is
    chapters,  \* scrape's chapters
    i,         \* the position in chapters of the chapter being processed
    pending,   \* the image references of the page not yet converted
    refs,      \* what the converted references became, in order
    found,     \* whether the page's conversion gave content
    res,       \* history: what each chapter's page fetch gave in this run
    reqs,      \* history: the asset URLs requested in this run
    writes,    \* history: the files written in this run, [kind, path, by]
    named,     \* history: <<URL, filename>> of every download_asset call
    atStart,   \* history: the assets directory as this run found it
    lastCall,  \* history: the last download_asset call of this run
    slept      \* history: whether time.sleep ran after each chapter's page fetch

vars == <<crawler, toc, imgs, files, assets, now, run, pc, chapters, i, pending,
          refs, found, res, reqs, writes, named, atStart, lastCall, slept>>

world == <<crawler, toc, imgs>>

NoCall ==
    [made |-> FALSE, ref |-> <<>>, page |-> <<>>, url |-> <<>>, fn |-> <<>>,
     existed |-> FALSE, requested |-> FALSE, opened |-> FALSE, net |-> "none",
     ret |-> <<>>, before |-> NoFile, hadCopy |-> FALSE]

Written(kind, path, by) == [kind |-> kind, path |-> path, by |-> by]

Final == {"exit", "done", "crash"}

\* __init__ has run: the directories exist and are empty
Init ==
    /\ crawler \in Crawlers
    /\ toc \in TocPages(crawler)
    /\ imgs \in PageImages
    /\ files = <<>>
    /\ assets = <<>>
    /\ now = 0
    /\ run = 1
    /\ pc = "start"
    /\ chapters = <<>>
    /\ i = 0
    /\ pending = <<>>
    /\ refs = <<>>
    /\ found = FALSE
    /\ res = <<>>
    /\ reqs = {}
    /\ writes = {}
    /\ named = {}
    /\ atStart = <<>>
    /\ lastCall = NoCall
    /\ slept = <<>>

\* scrape: chapters = self.get_toc(); if not chapters: return
GetToc ==
    /\ pc = "start"
    /\ \E fetched \in BOOLEAN :
         LET chs == get_toc(crawler, fetched, toc)
         IN  /\ chapters' = chs
             /\ res' = [j \in DOMAIN chs |-> "none"]
             /\ slept' = [j \in DOMAIN chs |-> FALSE]
             /\ pc' = IF TocEmpty(chs) THEN "exit" ELSE "index"
    /\ UNCHANGED <<world, files, assets, now, run, i, pending, refs, found, reqs,
                   writes, named, atStart, lastCall>>

\* scrape: the index file, and (eth, zk) each chapter's filename
WriteIndex ==
    /\ pc = "index"
    /\ files' = WriteFile(files, README, IndexLines(crawler, chapters))
    /\ writes' = writes \cup {Written("index", README, 0)}
    /\ chapters' = AssignFilenames(crawler, chapters)
    /\ i' = 1
    /\ pc' = IF Len(chapters) = 0 THEN "done" ELSE "loop"
    /\ UNCHANGED <<world, assets, now, run, pending, refs, found, res, reqs, named,
                   atStart, lastCall, slept>>

\* the loop's next position after chapter i
AfterChapter == IF i + 1 > Len(chapters) THEN "done" ELSE "loop"

\* scrape: the page fetch of chapter i, and what the loop does with its result
FetchChapter ==
    /\ pc = "loop"
    /\ \E kind \in PageKinds(crawler, chapters[i].url) :
         /\ res' = [res EXCEPT ![i] = kind]
         /\ IF Skips(crawler, kind)
            THEN /\ i' = i + 1
                 /\ pc' = AfterChapter
                 /\ UNCHANGED <<pending, found>>
            ELSE /\ pc' = "convert"
                 /\ found' = (kind = "content")
                 /\ pending' = IF kind = "content" THEN imgs ELSE <<>>
                 /\ UNCHANGED i
    /\ refs' = <<>>
    /\ UNCHANGED <<world, files, assets, now, run, chapters, reqs, writes, named,
                   atStart, lastCall, slept>>

\* process_content / convert_img: one image reference, through download_asset.
\* The clock is read, and may have advanced, when the filename is synthesized.
ConvertImage ==
    /\ pc = "convert"
    /\ pending # <<>>
    /\ \E t \in {now, now + 1}, net \in NetOutcomes :
         \E out \in {download_asset(crawler, Head(pending), chapters[i].url, assets, t, net, run)} :
             /\ t <= MaxClock
             /\ t = now \/ (Head(pending) # <<>> /\ ~UrlNamesFile(crawler, out.url))
             /\ net = "ok" \/ out.requested
             /\ now' = t
             /\ assets' = out.dir
             /\ refs' = Append(refs, out.ret)
             /\ reqs' = IF out.requested THEN reqs \cup {out.url} ELSE reqs
             /\ writes' = IF out.opened
                          THEN writes \cup {Written("asset", out.fn, i)} ELSE writes
             /\ named' = IF Head(pending) = <<>> THEN named
                         ELSE named \cup {<<out.url, out.fn>>}
             /\ lastCall' =
                  [made |-> TRUE, ref |-> Head(pending), page |-> chapters[i].url,
                   url |-> out.url, fn |-> out.fn, existed |-> out.existed,
                   requested |-> out.requested, opened |-> out.opened,
                   net |-> IF out.requested THEN net ELSE "none",
                   ret |-> out.ret,
                   before |-> IF out.existed THEN assets[out.fn] ELSE NoFile,
                   hadCopy |-> \E f \in DOMAIN assets : assets[f].src = out.url]
    /\ pending' = Tail(pending)
    /\ UNCHANGED <<world, files, run, pc, chapters, i, found, res, atStart, slept>>

\* scrape: the chapter's file and the sleep that ends the loop's body (a
\* `continue` above does not come here); an exception raised by open() or
\* write() leaves scrape, which has no handler for it
WriteChapter ==
    /\ pc = "convert"
    /\ pending = <<>>
    /\ \E ok \in BOOLEAN :
         IF ok
         THEN /\ files' = WriteFile(files, TargetPath(crawler, chapters[i]),
                            FullContent(crawler, chapters[i], ChapterBody(crawler, found, refs)))
              /\ writes' = writes \cup {Written("chapter", TargetPath(crawler, chapters[i]), i)}
              /\ slept' = [slept EXCEPT ![i] = TRUE]
              /\ i' = i + 1
              /\ pc' = AfterChapter
         ELSE /\ pc' = "crash"
              /\ UNCHANGED <<files, writes, i, slept>>
    /\ UNCHANGED <<world, assets, now, run, chapters, pending, refs, found, res, reqs,
                   named, atStart, lastCall>>

\* the script is run again, on the same output directory; the clock has moved
\* on since the calls of the run before
Rerun ==
    /\ pc \in Final
    /\ run < MaxRuns
    /\ now < MaxClock
    /\ now' = now + 1
    /\ run' = run + 1
    /\ pc' = "start"
    /\ chapters' = <<>>
    /\ i' = 0
    /\ pending' = <<>>
    /\ refs' = <<>>
    /\ found' = FALSE
    /\ res' = <<>>
    /\ reqs' = {}
    /\ writes' = {}
    /\ atStart' = assets
    /\ lastCall' = NoCall
    /\ slept' = <<>>
    /\ UNCHANGED <<world, files, assets, named>>

\* one run of the script
Next == GetToc \/ WriteIndex \/ FetchChapter \/ ConvertImage \/ WriteChapter

Spec == Init /\ [][Next]_vars

\* up to MaxRuns runs, one after the other, on the same output directory and
\* the same remote site
InitRerun == Init /\ Len(toc.links) <= MaxRerunLinks

NextRerun == Next \/ Rerun

SpecRerun == InitRerun /\ [][NextRerun]_vars

(***************************************************************************)
(* Properties.                                                             *)
(***************************************************************************)
\* the chapters whose page fetch answered in this run
Fetched(j) == res[j] \in {"empty", "noregion", "content"}

\* the entry lines of an index file
IndexEntries(lines) == SelectSeq(lines, LAMBDA l : l.kind = "entry")

\* C1: a download_asset call that finds a file at the path it derived issues
\* no request, opens no file, leaves the file as it was and returns
\* assets/<filename>.
C1_CacheHit ==
    (lastCall.made /\ lastCall.existed) =>
        /\ ~lastCall.requested
        /\ ~lastCall.opened
        /\ lastCall.ret = RelativePath(lastCall.fn)
        /\ lastCall.fn \in DOMAIN assets
        /\ assets[lastCall.fn] = lastCall.before

\* a call found the file another reference of the run had stored
C1_Witness ==
    /\ lastCall.made
    /\ lastCall.existed
    /\ lastCall.before.complete
    /\ lastCall.ret = RelativePath(lastCall.fn)

\* C2: when the asset request is answered with a status that is not 200,
\* download_asset returns the reference as it stood in the page, and no file
\* is created.
C2_FallbackIsOriginal ==
    (lastCall.made /\ lastCall.net = "status") =>
        /\ lastCall.ret = lastCall.ref
        /\ ~lastCall.opened
        /\ lastCall.fn \notin DOMAIN assets

\* C3: when scrape returns after the loop, every chapter whose page fetch
\* succeeded has a file, no file was written for a chapter whose fetch failed,
\* and the index lists every title.
C3_PartialCrawl ==
    pc = "done" =>
        /\ \A j \in DOMAIN chapters :
             /\ Fetched(j) => TargetPath(crawler, chapters[j]) \in DOMAIN files
             /\ res[j] = "fail" => ~\E w \in writes : w.kind = "chapter" /\ w.by = j
        /\ README \in DOMAIN files
        /\ Len(IndexEntries(files[README])) = Len(chapters)
        /\ \A j \in DOMAIN chapters : IndexEntries(files[README])[j].text = chapters[j].title

\* C4: from the first chapter page fetch on, the index file is there, written
\* by this run, and its entries are the chapters get_toc returned, one each,
\* in order, whatever the page fetches gave.
C4_IndexFromToc ==
    (pc \in {"loop", "convert", "done", "crash"} \/ \E j \in DOMAIN res : res[j] # "none") =>
        /\ Written("index", README, 0) \in writes
        /\ README \in DOMAIN files
        /\ Len(IndexEntries(files[README])) = Len(get_toc(crawler, TRUE, toc))
        /\ \A j \in DOMAIN chapters :
             /\ IndexEntries(files[README])[j].text = get_toc(crawler, TRUE, toc)[j].title
             /\ IndexEntries(files[README])[j].target = chapters[j].filename

\* two chapters, the first fetch failed, the second chapter was written
C4_Witness ==
    /\ pc = "done"
    /\ Len(chapters) = 2
    /\ res[1] = "fail"
    /\ res[2] = "content"
    /\ Len(IndexEntries(files[README])) = 2

\* C5: when get_toc returns no chapter, scrape returns at once: no index
\* file, no chapter file, no asset file, no request.
C5_EmptyTocFatal ==
    (pc # "start" /\ chapters = <<>>) =>
        /\ pc = "exit"
        /\ writes = {}
        /\ reqs = {}
        /\ files = <<>>
        /\ assets = <<>>

\* the TOC page had links, and none became a chapter
C5_Witness == pc = "exit" /\ toc.links # <<>>

\* C6: no two positions of the TOC are written to the same path.
C6_DistinctTargets ==
    \A v \in writes, w \in writes :
        (v.kind = "chapter" /\ w.kind = "chapter" /\ v.by # w.by) => v.path # w.path

\* C7 as stated: every call for one URL derives one filename, and a URL that
\* has a file is not requested again.
C7_OneFilenamePerUrl ==
    /\ \A p \in named, q \in named : p[1] = q[1] => p[2] = q[2]
    /\ (lastCall.made /\ lastCall.requested) => ~lastCall.hadCopy

\* C7: every call for one URL whose path ends in a name with a dot derives
\* one filename; such a URL is not requested while a file holds its body; and
\* no call opens a file that exists.
C7_OneFilenamePerNamedUrl ==
    /\ \A p \in named, q \in named :
         (p[1] = q[1] /\ UrlNamesFile(crawler, p[1])) => p[2] = q[2]
    /\ (lastCall.made /\ lastCall.requested /\ UrlNamesFile(crawler, lastCall.url))
           => ~lastCall.hadCopy
    /\ (lastCall.made /\ lastCall.opened) => ~lastCall.existed

\* a later run asks for a URL an earlier run stored, and finds its file
C7_Witness ==
    /\ run > 1
    /\ lastCall.made
    /\ lastCall.existed
    /\ lastCall.before.run < run
    /\ lastCall.before.src = lastCall.url
    /\ UrlNamesFile(crawler, lastCall.url)

\* C8 as stated: a later run requests no URL whose file it found in the
\* assets directory, and leaves every file it found as it was.
C8_RerunIdempotent ==
    run > 1 =>
        \A f \in DOMAIN atStart :
            /\ atStart[f].src \notin reqs
            /\ f \in DOMAIN assets
            /\ assets[f] = atStart[f]

\* C8: a later run requests no URL whose file it found under the name the URL
\* ends in, and leaves every file it found as it was.
C8_RerunIdempotentNamed ==
    run > 1 =>
        \A f \in DOMAIN atStart :
            /\ UrlNamesFile(crawler, atStart[f].src) => atStart[f].src \notin reqs
            /\ f \in DOMAIN assets
            /\ assets[f] = atStart[f]

\* the second run has converted a page whose images the first run stored
C8_Witness ==
    /\ run = 2
    /\ pc = "done"
    /\ atStart # <<>>
    /\ \E j \in DOMAIN res : res[j] = "content"
    /\ reqs = {}

\* C9: a chapter whose page was fetched and has no content element is not
\* skipped: scrape goes on to write its file with the placeholder as content,
\* and once the loop has passed the chapter the file is there, ending in the
\* placeholder.
C9_Placeholder ==
    \A j \in DOMAIN res :
        res[j] = "noregion" =>
            \/ /\ j = i
               /\ pc \in {"convert", "crash"}
               /\ ~found
               /\ pending = <<>>
               /\ ChapterBody(crawler, found, refs).kind = "placeholder"
            \/ /\ j < i
               /\ TargetPath(crawler, chapters[j]) \in DOMAIN files
               /\ files[TargetPath(crawler, chapters[j])][3].kind = "placeholder"
               /\ files[TargetPath(crawler, chapters[j])][2].target = chapters[j].url

\* the placeholder file is written and the loop is at the next chapter
C9_Witness ==
    /\ pc = "loop"
    /\ i = 2
    /\ res[1] = "noregion"
    /\ files[TargetPath(crawler, chapters[1])][3].kind = "placeholder"

\* C10: unless the TOC was empty, scrape ends by running through every
\* chapter, whatever failed while a chapter was processed.
C10_FailureConfined ==
    (pc \in Final /\ chapters # <<>>) => (pc = "done" /\ i = Len(chapters) + 1)

\* the chapters whose file, as it stands, is the one this run wrote for them:
\* no later position of the run wrote to the same path
LastWriter(j) ==
    /\ Written("chapter", TargetPath(crawler, chapters[j]), j) \in writes
    /\ ~\E w \in writes : /\ w.kind = "chapter" /\ w.by > j
                          /\ w.path = TargetPath(crawler, chapters[j])

\* the lines of the file of chapter j
ChapterFile(j) == files[TargetPath(crawler, chapters[j])]

\* the positions of the lines of a given kind in a file
LinesOfKind(lines, kinds) == {k \in DOMAIN lines : lines[k].kind \in kinds}

\* C11 as stated: the first line of every chapter file is the provenance line
\* with the chapter's own URL, and the content body comes after it.
C11_ProvenanceFirst ==
    \A j \in DOMAIN chapters :
        LastWriter(j) =>
            /\ ChapterFile(j)[1] = Line("source", <<>>, chapters[j].url, <<>>)
            /\ \A k \in LinesOfKind(ChapterFile(j), {"body", "placeholder"}) : k > 1

\* C11: every chapter file has one provenance line, with the chapter's own
\* URL; the content body is the last line and comes after it; and what comes
\* before it is nothing (btc) or the one heading with the chapter's title
\* (eth, zk).
C11_ProvenanceBeforeBody ==
    \A j \in DOMAIN chapters :
        LastWriter(j) =>
            /\ Cardinality(LinesOfKind(ChapterFile(j), {"source"})) = 1
            /\ \A k \in LinesOfKind(ChapterFile(j), {"source"}) :
                 /\ ChapterFile(j)[k].target = chapters[j].url
                 /\ k = IF crawler = "btc" THEN 1 ELSE 2
                 /\ \A b \in 1..(k - 1) :
                      ChapterFile(j)[b] = Line("title", chapters[j].title, <<>>, <<>>)
                 /\ LinesOfKind(ChapterFile(j), {"body", "placeholder"}) = {k + 1}
            /\ Len(ChapterFile(j)) = IF crawler = "btc" THEN 2 ELSE 3

\* the eth script has written the files of two chapters, one with content
C11_Witness ==
    /\ crawler = "eth"
    /\ pc = "done"
    /\ Len(chapters) = 2
    /\ LastWriter(1) /\ LastWriter(2)
    /\ res[2] = "content"
    /\ ChapterFile(1) # ChapterFile(2)

\* s ends with suf
EndsWith(s, suf) ==
    Len(suf) <= Len(s) /\ SubSeq(s, Len(s) - Len(suf) + 1, Len(s)) = suf

\* an anchor-only link: its href is a fragment of the TOC page itself
IsAnchorOnly(l) == StartsWith(l.href, <<"#">>)

\* a self-referential / index link: it leads to the index document
IsIndexLink(l) == Contains(l.href, README)

\* a link out of the book (the btc README's links to other sites)
IsExternal(c, l) == c = "btc" /\ StartsWith(l.href, Http)

\* the chapter links of a TOC page, in document order
ChapterLinks(c, page) ==
    SelectSeq(page.links,
              LAMBDA l : /\ l.href # <<>>
                         /\ ~IsAnchorOnly(l) /\ ~IsIndexLink(l) /\ ~IsExternal(c, l))

\* C12: the descriptors get_toc returned are the chapter links of the TOC
\* page, one each, in document order: the j-th has the title of the j-th
\* chapter link and a URL that ends with its href; no descriptor stands for
\* an index link or an anchor-only link.
C12_TocOrder ==
    pc \notin {"start", "exit"} =>
        /\ Len(chapters) = Len(ChapterLinks(crawler, toc))
        /\ \A j \in DOMAIN chapters :
             /\ j <= Len(ChapterLinks(crawler, toc))
             /\ chapters[j].title = ChapterLinks(crawler, toc)[j].title
             /\ EndsWith(chapters[j].url, ChapterLinks(crawler, toc)[j].href)
        /\ \A j \in DOMAIN chapters : ~StartsWith(chapters[j].url, <<"#">>)

\* C13: the page fetch of a chapter is issued only after a sleep that
\* followed the page fetch of the chapter before it, whatever became of that
\* chapter.
C13_PolitenessDelay ==
    \A j \in DOMAIN res :
        (j > 1 /\ res[j] # "none") => slept[j - 1]

\* the reference has the scheme http or https
HasHttpScheme(u) ==
    /\ SchemeEnd(u) # 0
    /\ ToLower(SubSeq(u, 1, SchemeEnd(u) - 1)) \in {Http, Http \o <<"s">>}

\* C14: download_asset fetches a reference that has an http/https scheme
\* from the reference itself, and every other reference from its resolution
\* against the URL of the page that holds it (against the base URL when
\* there is no page URL); resolving the resolved URL again gives it back.
C14_AssetResolution ==
    (lastCall.made /\ lastCall.ref # <<>>) =>
        /\ lastCall.url =
              IF HasHttpScheme(lastCall.ref) THEN lastCall.ref
              ELSE IF lastCall.page # <<>> THEN urljoin(lastCall.page, lastCall.ref)
              ELSE urljoin(base_url(crawler), lastCall.ref)
        /\ ResolveAsset(crawler, lastCall.url, lastCall.page) = lastCall.url

\* C15: every file of the assets directory holds the whole body of a 200
\* response, and when a download_asset call has returned the fallback
\* reference there is no file at the path it derived.
C15_NoPartialDownload ==
    /\ \A f \in DOMAIN assets : assets[f].complete
    /\ (lastCall.made /\ lastCall.requested /\ lastCall.net # "ok") =>
           /\ lastCall.ret # RelativePath(lastCall.fn)
           /\ lastCall.fn \notin DOMAIN assets

=============================================================================
